---------------------------- MODULE Spec2Model ----------------------------
(***************************************************************************)
(* A model of the frpc RPC runtime: the client's call-multiplexing engine  *)
(* (Go/Call, send, registerCall, removeCall, receive, terminateCall,       *)
(* Close), the server's per-connection dispatch loop (ServerConn,          *)
(* serverCodec, readRequest, findService, handleRequest, sendResponse)     *)
(* and the service registry (Register, newService, registerMethods).       *)
(*                                                                         *)
(* Four specifications share the module: SpecClient, SpecServer and        *)
(* SpecRegistry, each of which moves its own group of variables and leaves *)
(* the other groups unchanged, and SpecCall, the client with the callers   *)
(* of Call and IsAvailable under fair scheduling.                          *)
(***************************************************************************)
EXTENDS Integers, Sequences, FiniteSets, TLC

\* ------------------------------------------------------------------ bounds
\* Number of Go/Call invocations made on the client.
MaxCalls == 2
\* Number of response Headers the receive loop reads successfully.
MaxReads == 2
\* Number of Close invocations made on the client.
MaxClosers == 2
\* Largest capacity of the caller-supplied completion channel.
MaxCap == 1

Calls == 1 .. MaxCalls
Closers == 1 .. MaxClosers

\* ------------------------------------------------------------ client state
VARIABLES
    seq,        \* Client.seq
    pending,    \* Client.pending: sequence number -> Call
    closing,    \* Client.closing
    shutdown,   \* Client.shutdown
    sending,    \* holder of Client.sending
    mu,         \* holder of Client.mu
    call,       \* the Call objects and the position of the goroutine in Go/send
    chan,       \* contents of the completion channels (Call.Done)
    userCap,    \* capacity of the caller-supplied completion channel
    recv,       \* the receive goroutine: position, Call removed, err, range state
    nRead,      \* Headers read so far by receive
    connClosed, \* the client's stream has been closed
    nClose,     \* times Client.Close has invoked cc.Close
    closer,     \* the goroutines calling Client.Close and what each got back
    nDone,      \* history: times Call.done has signalled each Call
    regLog,     \* history: sequence numbers in the order registerCall gave them
    severed,    \* history: Calls pending when ReadHeader failed in receive
    avail       \* what the caller of IsAvailable got back

clientVars == <<seq, pending, closing, shutdown, sending, mu, call, chan,
                userCap, recv, nRead, connClosed, nClose, closer,
                nDone, regLog, severed, avail>>

\* ---------------------------------------------------------- registry state
VARIABLES
    serviceMap, \* Server.serviceMap: service name -> service
    reg,        \* the goroutines calling Register: position, receiver, result
    exited,     \* log.Fatalf has ended the process
    storeLog    \* history: the callers in the order of their LoadOrStore

regVars == <<serviceMap, reg, exited, storeLog>>

\* ------------------------------------------------------------ server state
VARIABLES
    task,       \* serverCodec (task 0) and the handleRequest goroutines
    req,        \* the requests whose Header was read
    align,      \* what comes next on the request stream: a Header or a body
    sSending,   \* holder of the mutex `sending` of serverCodec
    out,        \* what has been written to the response stream
    sCloses,    \* times Close has been invoked on the connection
    opt         \* the Option the client sent

srvVars == <<task, req, align, sSending, out, sCloses, opt>>

vars == <<clientVars, regVars, srvVars>>

\* Lock holders.
Free == <<"free", 0>>
Sender(c) == <<"send", c>>
Receiver == <<"receive", 0>>

\* The caller-supplied completion channel; channel c is the one Go (or Call)
\* makes for Call c alone.
UserChan == 0
Chans == {UserChan} \cup Calls

\* cap(done)
Cap(ch) == IF ch = UserChan THEN userCap ELSE 1

\* A channel send blocks while the buffer is full.
HasRoom(ch) == Len(chan[ch]) < Cap(ch)

\* Sequence number of the first Call (newClientCodec: seq: 1).
FirstSeq == 1

\* c.seq++ in registerCall.
NextSeqSame(s) == s
NextSeq(s) == s + 1

NilCall == 0
NoSeq == 0

NewCall == [pc |-> "idle", Seq |-> NoSeq, Error |-> "nil", Reply |-> NoSeq,
            Done |-> UserChan, sig |-> NilCall, wrote |-> "no",
            start |-> "none"]

\* The receive goroutine newClientCodec starts.
FreshReceive == [pc |-> "read", call |-> NilCall, err |-> "nil", todo |-> {},
                 cur |-> NoSeq]

\* ------------------------------------------------------------ client: Go/send

\* History, kept from the start of a Go invocation until registerCall has
\* given it a sequence number or send has returned: what had happened on the
\* client when the invocation started.
\*   "shut"    a Close had returned, or terminateCall had set c.shutdown;
\*   "readErr" neither, but receive had hit its terminal read error;
\*   "open"    none of these.
CloseReturned == \E k \in Closers : closer[k] # "idle"
ReadErrorHit == recv.err # "nil"
StartedAt == IF CloseReturned \/ shutdown THEN "shut"
             ELSE IF ReadErrorHit THEN "readErr" ELSE "open"

\* Client.Go: a nil done becomes a fresh channel of capacity 1, a channel of
\* capacity 0 panics, and then the Call is built and handed to send.
Go(c) ==
    /\ UNCHANGED <<regVars, srvVars, avail>>
    /\ call[c].pc = "idle"
    /\ c > 1 => call[c - 1].pc # "idle"   \* the Calls are numbered as they start
    /\ \E ch \in {UserChan, c} :
          IF ch = UserChan /\ Cap(ch) = 0
          THEN call' = [call EXCEPT ![c].pc = "panic"]
          ELSE call' = [call EXCEPT ![c].pc = "lock",
                                    ![c].Done = ch,
                                    ![c].start = StartedAt]
    /\ UNCHANGED <<seq, pending, closing, shutdown, sending, mu, chan, userCap,
                   recv, nRead, connClosed, nClose, closer, nDone, regLog, severed>>

\* send: c.sending.Lock()
sendLock(c) ==
    /\ UNCHANGED <<regVars, srvVars, avail>>
    /\ call[c].pc = "lock"
    /\ sending = Free
    /\ sending' = Sender(c)
    /\ call' = [call EXCEPT ![c].pc = "register"]
    /\ UNCHANGED <<seq, pending, closing, shutdown, mu, chan, userCap, recv,
                   nRead, connClosed, nClose, closer, nDone, regLog, severed>>

\* The shutdown test of registerCall.
UnavailableClosingOnly == closing
Unavailable == closing \/ shutdown

\* c.pending[call.Seq] = call
StoreNothing(p, s, c) == p
Store(p, s, c) == [x \in DOMAIN p \cup {s} |-> IF x = s THEN c ELSE p[x]]

\* registerCall, under mu, as send calls it: on ErrShutDown send sets
\* call.Error and goes on to call.done().
registerCall(c) ==
    /\ UNCHANGED <<regVars, srvVars, avail>>
    /\ call[c].pc = "register"
    /\ mu = Free
    /\ IF Unavailable
       THEN /\ call' = [call EXCEPT ![c].Error = "ErrShutDown",
                                    ![c].sig = c,
                                    ![c].pc = "done"]
            /\ UNCHANGED <<seq, pending, regLog>>
       ELSE /\ call' = [call EXCEPT ![c].Seq = seq, ![c].start = "none",
                                    ![c].pc = "write"]
            /\ pending' = Store(pending, seq, c)
            /\ seq' = NextSeq(seq)
            /\ regLog' = Append(regLog, seq)
    /\ UNCHANGED <<closing, shutdown, sending, mu, chan, userCap, recv, nRead,
                   connClosed, nClose, closer, nDone, severed>>

\* c.cc.Write(&c.header, call.Args): GobCodec.Write closes the stream when
\* the encoding fails, and nothing can be written to a closed stream.  After
\* a successful Write send returns, and its deferred c.sending.Unlock() runs.
Write(c) ==
    /\ UNCHANGED <<regVars, srvVars, avail>>
    /\ call[c].pc = "write"
    /\ sending = Sender(c)
    /\ \E ok \in BOOLEAN :
          /\ connClosed => ~ok
          /\ IF ok
             THEN /\ call' = [call EXCEPT ![c].wrote = "ok", ![c].pc = "returned"]
                  /\ sending' = Free
                  /\ UNCHANGED connClosed
             ELSE /\ connClosed' = TRUE
                  /\ call' = [call EXCEPT ![c].wrote = "failed",
                                          ![c].pc = "writeFailed"]
                  /\ UNCHANGED sending
    /\ UNCHANGED <<seq, pending, closing, shutdown, mu, chan, userCap,
                   recv, nRead, nClose, closer, nDone, regLog, severed>>

\* call := c.pending[seq]
LookupAny(p, s) == IF DOMAIN p = {} THEN NilCall
                   ELSE p[CHOOSE x \in DOMAIN p : \A y \in DOMAIN p : x <= y]
Lookup(p, s) == IF s \in DOMAIN p THEN p[s] ELSE NilCall

\* delete(c.pending, seq)
DeleteNothing(p, s) == p
Delete(p, s) == [x \in DOMAIN p \ {s} |-> p[x]]

\* The write-failure path of send: removeCall(call.Seq) under mu, and the
\* Call it returns, if any, gets the write error; with no Call send returns
\* (the deferred c.sending.Unlock()).
sendRemove(c) ==
    /\ UNCHANGED <<regVars, srvVars, avail>>
    /\ call[c].pc = "writeFailed"
    /\ mu = Free
    /\ sending = Sender(c)
    /\ LET t == Lookup(pending, call[c].Seq) IN
          /\ pending' = Delete(pending, call[c].Seq)
          /\ IF t # NilCall
             THEN /\ call' = [call EXCEPT ![t].Error = "writeErr",
                                          ![c].sig = t,
                                          ![c].pc = "done"]
                  /\ UNCHANGED sending
             ELSE /\ call' = [call EXCEPT ![c].pc = "returned"]
                  /\ sending' = Free
    /\ UNCHANGED <<seq, closing, shutdown, mu, chan, userCap, recv,
                   nRead, connClosed, nClose, closer, nDone, regLog, severed>>

\* Call.done: c.Done <- c, which blocks while the channel is full.
done(t) ==
    /\ HasRoom(call[t].Done)
    /\ chan' = [chan EXCEPT ![call[t].Done] = Append(@, t)]
    /\ nDone' = [nDone EXCEPT ![t] = @ + 1]

\* call.done() in send, after which send returns (the deferred
\* c.sending.Unlock()).
sendDone(c) ==
    /\ UNCHANGED <<regVars, srvVars, avail>>
    /\ call[c].pc = "done"
    /\ sending = Sender(c)
    /\ done(call[c].sig)
    /\ call' = [call EXCEPT ![c].pc = "returned", ![c].sig = NilCall,
                             ![c].start = "none"]
    /\ sending' = Free
    /\ UNCHANGED <<seq, pending, closing, shutdown, mu, userCap, recv,
                   nRead, connClosed, nClose, closer, regLog, severed>>

\* ---------------------------------------------------------- client: receive

\* Header.Seq values the stream can deliver: those of Calls that are pending,
\* of Calls already removed, and of Calls not registered yet.
HeaderSeqs == 1 .. MaxCalls

\* One turn of the loop of receive up to call.done(): ReadHeader returns a
\* Header, removeCall(h.Seq) runs under mu, and the body is read and
\* discarded (no Call, or a Header error) or decoded into call.Reply.
\* ReadBody may fail, which ends the loop after call.done().
receive ==
    /\ UNCHANGED <<regVars, srvVars, avail>>
    /\ recv.pc = "read"
    /\ nRead < MaxReads
    /\ mu = Free
    /\ nRead' = nRead + 1
    /\ \E s \in HeaderSeqs, hErr \in BOOLEAN, ok \in BOOLEAN :
         LET e == IF ok THEN "nil" ELSE "bodyErr"
             t == Lookup(pending, s) IN
         /\ pending' = Delete(pending, s)
         /\ CASE t = NilCall ->
                  /\ recv' = [recv EXCEPT !.err = e,
                                          !.pc = IF ok THEN "read"
                                                 ELSE "termLockSending"]
                  /\ UNCHANGED call
             [] t # NilCall /\ hErr ->
                  /\ call' = [call EXCEPT ![t].Error = "headerErr"]
                  /\ recv' = [recv EXCEPT !.call = t, !.err = e, !.pc = "done"]
             [] OTHER ->
                  /\ call' = IF ok THEN [call EXCEPT ![t].Reply = s]
                                   ELSE [call EXCEPT ![t].Error = "bodyErr"]
                  /\ recv' = [recv EXCEPT !.call = t, !.err = e, !.pc = "done"]
    /\ UNCHANGED <<seq, closing, shutdown, sending, mu, chan, userCap,
                   connClosed, nClose, closer, nDone, regLog, severed>>

\* receive: c.cc.ReadHeader(&h) fails (the stream is severed, or was closed),
\* which ends the loop.
receiveHeaderFail ==
    /\ UNCHANGED <<regVars, srvVars, avail>>
    /\ recv.pc = "read"
    /\ recv' = [recv EXCEPT !.err = "readErr", !.pc = "termLockSending"]
    /\ severed' = {pending[s] : s \in DOMAIN pending}
    /\ UNCHANGED <<seq, pending, closing, shutdown, sending, mu, call, chan,
                   userCap, nRead, connClosed, nClose, closer, nDone,
                   regLog>>

\* call.done() in receive, then the loop test.
receiveDone ==
    /\ UNCHANGED <<regVars, srvVars, avail>>
    /\ recv.pc = "done"
    /\ done(recv.call)
    /\ recv' = [recv EXCEPT !.call = NilCall,
                             !.pc = IF recv.err = "nil" THEN "read"
                                    ELSE "termLockSending"]
    /\ UNCHANGED <<seq, pending, closing, shutdown, sending, mu, call, userCap,
                   nRead, connClosed, nClose, closer, regLog, severed>>

\* -------------------------------------------------- client: terminateCall

\* A terminateCall that takes c.mu first.
terminateLockMuFirst ==
    /\ UNCHANGED <<regVars, srvVars, avail>>
    /\ recv.pc = "termLockSending"
    /\ mu = Free
    /\ mu' = Receiver
    /\ recv' = [recv EXCEPT !.pc = "termLockMu"]
    /\ UNCHANGED <<seq, pending, closing, shutdown, sending, call, chan, userCap,
                   nRead, connClosed, nClose, closer, nDone, regLog,
                   severed>>

\* terminateCall: c.sending.Lock()
terminateLockSending ==
    /\ UNCHANGED <<regVars, srvVars, avail>>
    /\ recv.pc = "termLockSending"
    /\ sending = Free
    /\ sending' = Receiver
    /\ recv' = [recv EXCEPT !.pc = "termLockMu"]
    /\ UNCHANGED <<seq, pending, closing, shutdown, mu, call, chan, userCap,
                   nRead, connClosed, nClose, closer, nDone, regLog,
                   severed>>

\* The entries `for _, call := range c.pending` goes through.
RangeNone(p) == {}
Range(p) == DOMAIN p

\* terminateCall: c.mu.Lock(); c.shutdown = true; the range begins.
terminateLockMu ==
    /\ UNCHANGED <<regVars, srvVars, avail>>
    /\ recv.pc = "termLockMu"
    /\ mu = Free
    /\ mu' = Receiver
    /\ shutdown' = TRUE
    /\ recv' = [recv EXCEPT !.todo = Range(pending), !.pc = "termLoop"]
    /\ UNCHANGED <<seq, pending, closing, sending, call, chan, userCap, nRead,
                   connClosed, nClose, closer, nDone, regLog, severed>>

\* terminateCall: the range takes the next entry, in no particular order,
\* and sets call.Error = err.
terminateNext ==
    /\ UNCHANGED <<regVars, srvVars, avail>>
    /\ recv.pc = "termLoop"
    /\ \E s \in recv.todo :
          /\ recv' = [recv EXCEPT !.todo = @ \ {s}, !.cur = s, !.pc = "termDone"]
          /\ call' = [call EXCEPT ![pending[s]].Error = recv.err]
    /\ UNCHANGED <<seq, pending, closing, shutdown, sending, mu, chan, userCap,
                   nRead, connClosed, nClose, closer, nDone, regLog,
                   severed>>

\* terminateCall: call.done(), holding sending and mu.
terminateDone ==
    /\ UNCHANGED <<regVars, srvVars, avail>>
    /\ recv.pc = "termDone"
    /\ done(pending[recv.cur])
    /\ recv' = [recv EXCEPT !.cur = NoSeq, !.pc = "termLoop"]
    /\ UNCHANGED <<seq, pending, closing, shutdown, sending, mu, call, userCap,
                   nRead, connClosed, nClose, closer, regLog, severed>>

\* terminateCall: the range is over; the deferred unlocks run and receive
\* returns.
terminateUnlock ==
    /\ UNCHANGED <<regVars, srvVars, avail>>
    /\ recv.pc = "termLoop"
    /\ recv.todo = {}
    /\ mu' = Free
    /\ sending' = Free
    /\ recv' = [recv EXCEPT !.pc = "exit"]
    /\ UNCHANGED <<seq, pending, closing, shutdown, call, chan, userCap, nRead,
                   connClosed, nClose, closer, nDone, regLog, severed>>

\* ------------------------------------------------ client: Close, consumers

\* The test `if c.closing` of Close.
AlreadyClosingNever == FALSE
AlreadyClosing == closing

\* Client.Close, under mu.
Close(k) ==
    /\ UNCHANGED <<regVars, srvVars, avail>>
    /\ closer[k] = "idle"
    /\ k > 1 => closer[k - 1] # "idle"    \* the callers are numbered as they run
    /\ mu = Free
    /\ IF AlreadyClosing
       THEN /\ closer' = [closer EXCEPT ![k] = "ErrShutDown"]
            /\ UNCHANGED <<closing, nClose, connClosed>>
       ELSE /\ closing' = TRUE
            /\ nClose' = nClose + 1
            /\ connClosed' = TRUE
            /\ closer' = [closer EXCEPT ![k] = "ccClose"]
    /\ UNCHANGED <<seq, pending, shutdown, sending, mu, call, chan, userCap,
                   recv, nRead, nDone, regLog, severed>>

\* The caller takes a completed Call from the completion channel it supplied:
\* <-done, at any time.  (The channel Go makes for one Call is written by that
\* Call's single done() and read by nobody but its caller; the client never
\* looks at it again, so that receive is not modelled.)
Consume(ch) ==
    /\ UNCHANGED <<regVars, srvVars, avail>>
    /\ ch = UserChan
    /\ chan[ch] # << >>
    /\ chan' = [chan EXCEPT ![ch] = Tail(@)]
    /\ UNCHANGED <<seq, pending, closing, shutdown, sending, mu, call, userCap,
                   recv, nRead, connClosed, nClose, closer, nDone,
                   regLog, severed>>

\* Client.Call after Go has returned: call := <-call.Done on the channel of
\* capacity 1 that Call made, and the return of call.Error.
CallReturn(c) ==
    /\ UNCHANGED <<regVars, srvVars, avail>>
    /\ call[c].pc = "returned"
    /\ call[c].Done = c
    /\ chan[c] # << >>
    /\ chan' = [chan EXCEPT ![c] = Tail(@)]
    /\ call' = [call EXCEPT ![c].pc = "callReturned"]
    /\ UNCHANGED <<seq, pending, closing, shutdown, sending, mu, userCap,
                   recv, nRead, connClosed, nClose, closer, nDone,
                   regLog, severed>>

\* Client.IsAvailable, under mu.
IsAvailable ==
    /\ UNCHANGED <<regVars, srvVars>>
    /\ avail = "none"
    /\ mu = Free
    /\ avail' = IF ~closing /\ ~shutdown THEN "true" ELSE "false"
    /\ UNCHANGED <<seq, pending, closing, shutdown, sending, mu, call, chan,
                   userCap, recv, nRead, connClosed, nClose, closer, nDone,
                   regLog, severed>>

ClientNext ==
    \/ \E c \in Calls : Go(c)
    \/ \E c \in Calls : sendLock(c)
    \/ \E c \in Calls : registerCall(c)
    \/ \E c \in Calls : Write(c)
    \/ \E c \in Calls : sendRemove(c)
    \/ \E c \in Calls : sendDone(c)
    \/ receive
    \/ receiveHeaderFail
    \/ receiveDone
    \/ terminateLockSending
    \/ terminateLockMu
    \/ terminateNext
    \/ terminateDone
    \/ terminateUnlock
    \/ \E k \in Closers : Close(k)
    \/ Consume(UserChan)



\* ================================================================ registry

\* Number of Register invocations.
MaxRegs == 3

Registrants == 1 .. MaxRegs

\* Strings are sequences of characters.
UpperCase == {"K", "E", "M", "S", "X", "U"}

\* ast.IsExported(name): the name begins with an upper case letter.
IsExported(name) == name # << >> /\ name[1] \in UpperCase

\* A method as reflection shows it: its name, NumIn and NumOut, whether
\* Out(0) is the error type, and whether the types of In(1) and In(2) are
\* exported or builtin (isExportedOrBuiltinType).
Method(name, numIn, numOut, outIsError, argOK, replyOK) ==
    [name |-> name, numIn |-> numIn, numOut |-> numOut,
     outIsError |-> outIsError, argOK |-> argOK, replyOK |-> replyOK]

\* The receivers handed to Register: their type name (after
\* reflect.Indirect) and their method set.
\*   K{}  : type K, value receiver methods only
\*   &K{} : type K, value and pointer receiver methods
\*   E{}  : an exported type with no method of the RPC shape
\*   k{}  : a type whose name is not exported
Receivers ==
    { [typeName |-> <<"K">>,
       methods |-> {Method(<<"M">>, 3, 1, TRUE, TRUE, TRUE)}],
      [typeName |-> <<"K">>,
       methods |-> {Method(<<"M">>, 3, 1, TRUE, TRUE, TRUE),
                    Method(<<"S">>, 3, 1, TRUE, TRUE, TRUE),
                    Method(<<"X">>, 2, 1, TRUE, TRUE, TRUE)}],
      [typeName |-> <<"E">>,
       methods |-> {Method(<<"M">>, 3, 2, TRUE, TRUE, TRUE),
                    Method(<<"S">>, 3, 1, FALSE, TRUE, TRUE),
                    Method(<<"X">>, 3, 1, TRUE, FALSE, TRUE)}],
      [typeName |-> <<"k">>,
       methods |-> {Method(<<"M">>, 3, 1, TRUE, TRUE, TRUE)}] }

\* service.registerMethods: the names of the methods that have three
\* inputs, one output of type error, and exported or builtin argument and
\* reply types.
registerMethods(rcvr) ==
    { m.name : m \in { x \in rcvr.methods :
                          /\ x.numIn = 3 /\ x.numOut = 1
                          /\ x.outIsError
                          /\ x.argOK /\ x.replyOK } }

\* newService: log.Fatalf ends the process when the type name is not
\* exported; otherwise the service carries the qualifying methods.
newService(rcvr) ==
    [name |-> rcvr.typeName,
     fatal |-> ~IsExported(rcvr.typeName),
     method |-> registerMethods(rcvr)]

\* sync.Map.LoadOrStore(key, value): the map afterwards, and whether the key
\* was already there.
StoreAlways(m, key, value) ==
    [map |-> [k \in DOMAIN m \cup {key} |-> IF k = key THEN value ELSE m[k]],
     loaded |-> FALSE]
LoadOrStore(m, key, value) ==
    IF key \in DOMAIN m
    THEN [map |-> m, loaded |-> TRUE]
    ELSE [map |-> [k \in DOMAIN m \cup {key} |-> IF k = key THEN value ELSE m[k]],
          loaded |-> FALSE]

NoReceiver == [typeName |-> << >>, methods |-> {}]

NoRegistrants == [i \in Registrants |-> [pc |-> "idle", rcvr |-> NoReceiver,
                                         res |-> "none"]]

\* Server.Register, first line: serv := newService(rcvr).
RegisterNew(i) ==
    /\ UNCHANGED <<clientVars, srvVars>>
    /\ ~exited
    /\ reg[i].pc = "idle"
    /\ i > 1 => reg[i - 1].pc # "idle"     \* the callers are numbered as they start
    /\ \E rcvr \in Receivers :
          IF newService(rcvr).fatal
          THEN /\ exited' = TRUE
               /\ reg' = [reg EXCEPT ![i] = [pc |-> "fatal", rcvr |-> rcvr,
                                             res |-> "none"]]
          ELSE /\ reg' = [reg EXCEPT ![i] = [pc |-> "store", rcvr |-> rcvr,
                                             res |-> "none"]]
               /\ UNCHANGED exited
    /\ UNCHANGED <<serviceMap, storeLog>>

\* Server.Register, the rest: LoadOrStore(serv.name, serv), and an error is
\* returned when the name was already there.
Register(i) ==
    /\ UNCHANGED <<clientVars, srvVars>>
    /\ ~exited
    /\ reg[i].pc = "store"
    /\ LET serv == newService(reg[i].rcvr)
           r == LoadOrStore(serviceMap, serv.name,
                            [name |-> serv.name, method |-> serv.method]) IN
          /\ serviceMap' = r.map
          /\ reg' = [reg EXCEPT ![i].pc = "done",
                                ![i].res = IF r.loaded THEN "error" ELSE "nil"]
    /\ storeLog' = Append(storeLog, i)
    /\ UNCHANGED exited

RegistryNext ==
    \/ \E i \in Registrants : RegisterNew(i)
    \/ \E i \in Registrants : Register(i)

\* ================================================================== server

\* Number of request Headers the server reads on the connection.
MaxReqs == 3

Main == 0
Handlers == 1 .. MaxReqs
Tasks == {Main} \cup Handlers

SFree == <<"free", 0>>
Holder(t) == <<"task", t>>

MagicNumber == 1179799619       \* 0x46525043
GobType == "application/gob"
JsonType == "application/json"

\* codec.NewCodecFuncMap after init().
NewCodecFuncMap == {GobType}

\* The Options a client may send: undecodable, or any magic number and
\* codec tag.
Options ==
    [decodes : BOOLEAN, MagicNumber : {MagicNumber, 0}, CodecType : {GobType, JsonType}]

\* The ServiceMethod strings of the requests.
ServiceMethods ==
    { <<"K", ".", "M">>,       \* a registered service and method
      <<"U", ".", "M">>,       \* an unregistered service
      <<"K", ".", "X">>,       \* a registered service, an unknown method
      <<"K", "M">> }           \* no dot

\* strings.LastIndex(s, "."), counting from 1 (0: there is none).
LastIndexDot(s) ==
    IF \E i \in DOMAIN s : s[i] = "."
    THEN CHOOSE i \in DOMAIN s : s[i] = "." /\ \A j \in DOMAIN s : s[j] = "." => j <= i
    ELSE 0

\* Server.findService: the error it returns, and whether it returns at all:
\* with no such service, servi is nil and servi.(*service) panics.
findService(m, serviceMethod) ==
    LET dot == LastIndexDot(serviceMethod)
        servName == SubSeq(serviceMethod, 1, dot - 1)
        methodName == SubSeq(serviceMethod, dot + 1, Len(serviceMethod))
    IN  IF dot = 0
        THEN [err |-> "ill-formed", panics |-> FALSE]
        ELSE IF servName \notin DOMAIN m
        THEN [err |-> "can't find service", panics |-> TRUE]
        ELSE IF methodName \notin m[servName].method
        THEN [err |-> "can't find method", panics |-> FALSE]
        ELSE [err |-> "nil", panics |-> FALSE]

\* The registry the connections are served with: Register(&K{}) has run.
ServedMap ==
    LET rcvr == CHOOSE r \in Receivers :
                    r.typeName = <<"K">> /\ Cardinality(r.methods) = 3
        serv == newService(rcvr)
    IN  LoadOrStore(<< >>, serv.name, [name |-> serv.name, method |-> serv.method]).map

NoReq == 0

\* ServerConn has just been started on an accepted connection.
FreshTasks == [t \in Tasks |-> [pc |-> IF t = Main THEN "handshake" ELSE "none",
                                r |-> NoReq, body |-> "none"]]

DefaultOption == [decodes |-> TRUE, MagicNumber |-> MagicNumber,
                  CodecType |-> GobType]

\* The process is gone: the runtime ended it on a fatal error ("fatal"), or
\* on the panic of findService once the deferred calls of the panicking
\* goroutine had run ("crashed").  Until then the other goroutines run on.
Dead == task[Main].pc \in {"fatal", "crashed"}

\* A ServerConn that goes on to serverCodec whatever the Option is.
ServerConnAccepts ==
    /\ UNCHANGED <<clientVars, regVars>>
    /\ task[Main].pc = "handshake"
    /\ task' = [task EXCEPT ![Main].pc = "read"]
    /\ UNCHANGED <<req, align, sSending, out, sCloses, opt>>

\* Server.ServerConn: the handshake.  A failure returns, and the deferred
\* conn.Close() runs.
ServerConn ==
    /\ UNCHANGED <<clientVars, regVars>>
    /\ task[Main].pc = "handshake"
    /\ IF opt.decodes /\ opt.MagicNumber = MagicNumber
          /\ opt.CodecType \in NewCodecFuncMap
       THEN /\ task' = [task EXCEPT ![Main].pc = "read"]
            /\ UNCHANGED sCloses
       ELSE /\ task' = [task EXCEPT ![Main].pc = "closed"]
            /\ sCloses' = sCloses + 1
    /\ UNCHANGED <<req, align, sSending, out, opt>>

\* What reading one value off the request stream leaves next on it.
Other(a) == IF a = "header" THEN "body" ELSE "header"

\* serverCodec: readRequest cannot read a Header (req == nil: the stream
\* has ended, or what was decoded is no Header) and the loop breaks.
readRequestFail ==
    /\ UNCHANGED <<clientVars, regVars>>
    /\ task[Main].pc = "read"
    /\ task' = [task EXCEPT ![Main].pc = "wait"]
    /\ UNCHANGED <<req, align, sSending, out, sCloses, opt>>

\* serverCodec: readRequest reads a Header, looks the method up and, when it
\* is found, reads the body; when it is not found the body stays on the
\* stream.  Each read takes the next value off the stream, whatever it is:
\* a Header read that starts at a body yields a Header made of the body's
\* bytes (misread).  On an error with a Header, serverCodec sets
\* req.h.Error and goes to sendResponse(cc, req.h, invalidRequest, sending);
\* with none it does wg.Add(1) and starts handleRequest.
readRequest ==
    /\ UNCHANGED <<clientVars, regVars>>
    /\ task[Main].pc = "read"
    /\ Len(req) < MaxReqs
    /\ \E sm \in ServiceMethods, bodyOK \in BOOLEAN :
         LET f == findService(serviceMap, sm)
             r == Len(req) + 1
             afterHeader == Other(align)
         IN  IF f.panics
             THEN /\ task' = [task EXCEPT ![Main].pc = "panicked"]
                  /\ req' = Append(req, [sm |-> sm, hErr |-> FALSE,
                                         misread |-> align # "header"])
                  /\ align' = afterHeader
             ELSE IF f.err # "nil"
             THEN /\ task' = [task EXCEPT ![Main].pc = "lock", ![Main].r = r,
                                          ![Main].body = "invalidRequest"]
                  /\ req' = Append(req, [sm |-> sm, hErr |-> TRUE,
                                         misread |-> align # "header"])
                  /\ align' = afterHeader
             ELSE IF ~bodyOK
             THEN /\ task' = [task EXCEPT ![Main].pc = "lock", ![Main].r = r,
                                          ![Main].body = "invalidRequest"]
                  /\ req' = Append(req, [sm |-> sm, hErr |-> TRUE,
                                         misread |-> align # "header"])
                  /\ align' = Other(afterHeader)
             ELSE /\ task' = [task EXCEPT ![r].pc = "call", ![r].r = r]
                  /\ req' = Append(req, [sm |-> sm, hErr |-> FALSE,
                                         misread |-> align # "header"])
                  /\ align' = Other(afterHeader)
    /\ UNCHANGED <<sSending, out, sCloses, opt>>

\* handleRequest: req.serv.call returns nil, or an error that is put in
\* req.h.Error; either way a sendResponse follows.
handleRequest(t) ==
    /\ UNCHANGED <<clientVars, regVars>>
    /\ ~Dead
    /\ t \in Handlers
    /\ task[t].pc = "call"
    /\ \E failed \in BOOLEAN :
          /\ req' = [req EXCEPT ![t].hErr = failed]
          /\ task' = [task EXCEPT ![t].pc = "lock",
                                  ![t].body = IF failed THEN "invalidRequest"
                                              ELSE "reply"]
    /\ UNCHANGED <<align, sSending, out, sCloses, opt>>

\* sendResponse: sending.Lock()
sendResponseLock(t) ==
    /\ UNCHANGED <<clientVars, regVars>>
    /\ ~Dead
    /\ task[t].pc = "lock"
    /\ sSending = SFree
    /\ sSending' = Holder(t)
    /\ task' = [task EXCEPT ![t].pc = "header"]
    /\ UNCHANGED <<req, align, out, sCloses, opt>>

\* Where a task goes when its sendResponse returns: serverCodec continues
\* its loop; handleRequest, after the response with invalidRequest, goes on
\* to sendResponse(cc, req.h, req.replyv.Interface(), sending), and after
\* that one returns (wg.Done).
AfterSend(t) ==
    IF t = Main THEN [task[t] EXCEPT !.pc = "read", !.r = NoReq, !.body = "none"]
    ELSE IF task[t].body = "invalidRequest"
    THEN [task[t] EXCEPT !.pc = "lock", !.body = "reply"]
    ELSE [task[t] EXCEPT !.pc = "done", !.body = "none"]

\* sendResponse returns: its deferred sending.Unlock() runs.  A sync.Mutex
\* belongs to no goroutine: Unlock frees it whoever locked it, and is a fatal
\* error that ends the process when the mutex is not locked.
sendResponseReturn(t) ==
    IF sSending = SFree
    THEN /\ task' = [task EXCEPT ![Main].pc = "fatal"]
         /\ UNCHANGED sSending
    ELSE /\ sSending' = SFree
         /\ task' = [task EXCEPT ![t] = AfterSend(t)]

\* GobCodec.Write, c.enc.Encode(h): the Header goes on the stream, or the
\* encoding fails, the connection is closed and sendResponse returns.
sendResponseHeader(t) ==
    /\ UNCHANGED <<clientVars, regVars>>
    /\ ~Dead
    /\ task[t].pc = "header"
    /\ \E ok \in BOOLEAN :
          /\ sCloses > 0 => ~ok
          /\ IF ok
             THEN /\ out' = Append(out, [k |-> "H", r |-> task[t].r,
                                         err |-> req[task[t].r].hErr,
                                         body |-> "none"])
                  /\ task' = [task EXCEPT ![t].pc = "body"]
                  /\ UNCHANGED <<sSending, sCloses>>
             ELSE /\ sCloses' = sCloses + 1
                  /\ sendResponseReturn(t)
                  /\ UNCHANGED out
    /\ UNCHANGED <<req, align, opt>>

\* GobCodec.Write, c.enc.Encode(body), and the return of sendResponse with
\* its deferred sending.Unlock().
sendResponseBody(t) ==
    /\ UNCHANGED <<clientVars, regVars>>
    /\ ~Dead
    /\ task[t].pc = "body"
    /\ \E ok \in BOOLEAN :
          /\ sCloses > 0 => ~ok
          /\ IF ok
             THEN /\ out' = Append(out, [k |-> "B", r |-> task[t].r,
                                         err |-> req[task[t].r].hErr,
                                         body |-> task[t].body])
                  /\ UNCHANGED sCloses
             ELSE /\ sCloses' = sCloses + 1
                  /\ UNCHANGED out
    /\ sendResponseReturn(t)
    /\ UNCHANGED <<req, align, opt>>

\* serverCodec after the loop: wg.Wait() returns when every handleRequest
\* has called wg.Done, and then cc.Close() runs.
serverCodecClose ==
    /\ UNCHANGED <<clientVars, regVars>>
    /\ task[Main].pc = "wait"
    /\ \A t \in Handlers : task[t].pc \in {"none", "done"}
    /\ sCloses' = sCloses + 1
    /\ task' = [task EXCEPT ![Main].pc = "unlock"]
    /\ UNCHANGED <<req, align, sSending, out, opt>>

\* serverCodec returns, or is unwound by the panic of findService: its
\* deferred sending.Unlock() runs.  Unlocking a sync.Mutex that is not locked
\* is a fatal error that ends the process; one that a handleRequest has
\* locked is freed, and the deferred call of ServerConn comes next.
serverCodecReturn ==
    /\ UNCHANGED <<clientVars, regVars>>
    /\ task[Main].pc \in {"unlock", "panicked"}
    /\ IF sSending = SFree
       THEN /\ task' = [task EXCEPT ![Main].pc = "fatal"]
            /\ UNCHANGED sSending
       ELSE /\ sSending' = SFree
            /\ task' = [task EXCEPT ![Main].pc =
                            IF task[Main].pc = "unlock" THEN "deferClose"
                            ELSE "panicClose"]
    /\ UNCHANGED <<req, align, out, sCloses, opt>>

\* ServerConn returns or is unwound: its deferred conn.Close() runs, and a
\* panic that nothing recovers then ends the process.
ServerConnReturn ==
    /\ UNCHANGED <<clientVars, regVars>>
    /\ task[Main].pc \in {"deferClose", "panicClose"}
    /\ sCloses' = sCloses + 1
    /\ task' = [task EXCEPT ![Main].pc =
                    IF task[Main].pc = "deferClose" THEN "closed" ELSE "crashed"]
    /\ UNCHANGED <<req, align, sSending, out, opt>>

ServerNext ==
    \/ ServerConn
    \/ readRequest
    \/ readRequestFail
    \/ \E t \in Handlers : handleRequest(t)
    \/ \E t \in Tasks : sendResponseLock(t)
    \/ \E t \in Tasks : sendResponseHeader(t)
    \/ \E t \in Tasks : sendResponseBody(t)
    \/ serverCodecClose
    \/ serverCodecReturn
    \/ ServerConnReturn

\* ========================================================== specifications

\* The client alone, the registry alone, and one server connection served
\* from a registry that holds the service K.
InitClient ==
    /\ seq = FirstSeq
    /\ pending = << >>
    /\ closing = FALSE
    /\ shutdown = FALSE
    /\ sending = Free
    /\ mu = Free
    /\ call = [c \in Calls |-> NewCall]
    /\ chan = [ch \in Chans |-> << >>]
    /\ recv = FreshReceive
    /\ nRead = 0
    /\ connClosed = FALSE
    /\ nClose = 0
    /\ closer = [k \in Closers |-> "idle"]
    /\ nDone = [c \in Calls |-> 0]
    /\ regLog = << >>
    /\ severed = {}
    /\ avail = "none"
    /\ serviceMap = << >>
    /\ reg = NoRegistrants
    /\ exited = FALSE
    /\ storeLog = << >>
    /\ task = FreshTasks
    /\ req = << >>
    /\ align = "header"
    /\ sSending = SFree
    /\ out = << >>
    /\ sCloses = 0
    /\ opt = DefaultOption
    /\ userCap \in 0 .. MaxCap

InitRegistry ==
    /\ seq = FirstSeq
    /\ pending = << >>
    /\ closing = FALSE
    /\ shutdown = FALSE
    /\ sending = Free
    /\ mu = Free
    /\ call = [c \in Calls |-> NewCall]
    /\ chan = [ch \in Chans |-> << >>]
    /\ userCap = 1
    /\ recv = FreshReceive
    /\ nRead = 0
    /\ connClosed = FALSE
    /\ nClose = 0
    /\ closer = [k \in Closers |-> "idle"]
    /\ nDone = [c \in Calls |-> 0]
    /\ regLog = << >>
    /\ severed = {}
    /\ avail = "none"
    /\ reg = NoRegistrants
    /\ exited = FALSE
    /\ storeLog = << >>
    /\ task = FreshTasks
    /\ req = << >>
    /\ align = "header"
    /\ sSending = SFree
    /\ out = << >>
    /\ sCloses = 0
    /\ opt = DefaultOption
    /\ serviceMap = << >>

InitServer ==
    /\ seq = FirstSeq
    /\ pending = << >>
    /\ closing = FALSE
    /\ shutdown = FALSE
    /\ sending = Free
    /\ mu = Free
    /\ call = [c \in Calls |-> NewCall]
    /\ chan = [ch \in Chans |-> << >>]
    /\ userCap = 1
    /\ recv = FreshReceive
    /\ nRead = 0
    /\ connClosed = FALSE
    /\ nClose = 0
    /\ closer = [k \in Closers |-> "idle"]
    /\ nDone = [c \in Calls |-> 0]
    /\ regLog = << >>
    /\ severed = {}
    /\ avail = "none"
    /\ serviceMap = ServedMap
    /\ reg = NoRegistrants
    /\ exited = FALSE
    /\ storeLog = << >>
    /\ task = FreshTasks
    /\ req = << >>
    /\ align = "header"
    /\ sSending = SFree
    /\ out = << >>
    /\ sCloses = 0
    /\ opt \in Options

SpecClient == InitClient /\ [][ClientNext]_vars

SpecRegistry == InitRegistry /\ [][RegistryNext]_vars

SpecServer == InitServer /\ [][ServerNext]_vars

\* The client with its callers waiting on Call and asking IsAvailable, under
\* fair scheduling: a goroutine that can take its next step takes it (the
\* Go scheduler runs every runnable goroutine, and a sync.Mutex is handed to
\* a waiter once it is free), the caller that supplied a completion channel
\* keeps reading it, and the stream ends in a header-read failure unless
\* responses keep coming.  Whether Go, Close and IsAvailable are called, and
\* whether a response arrives, is up to the callers and the server.
CallNext ==
    \/ ClientNext
    \/ \E c \in Calls : CallReturn(c)
    \/ IsAvailable

Fairness ==
    /\ \A c \in Calls : WF_vars(sendLock(c))
    /\ \A c \in Calls : WF_vars(registerCall(c))
    /\ \A c \in Calls : WF_vars(Write(c))
    /\ \A c \in Calls : WF_vars(sendRemove(c))
    /\ \A c \in Calls : WF_vars(sendDone(c))
    /\ \A c \in Calls : WF_vars(CallReturn(c))
    /\ WF_vars(receiveHeaderFail)
    /\ WF_vars(receiveDone)
    /\ WF_vars(terminateLockSending)
    /\ WF_vars(terminateLockMu)
    /\ WF_vars(terminateNext)
    /\ WF_vars(terminateDone)
    /\ WF_vars(terminateUnlock)
    /\ WF_vars(Consume(UserChan))

SpecCall == InitClient /\ [][CallNext]_vars /\ Fairness

\* =================================================================== claims
\* ------------------------------------------------------------------- client

\* The Calls registerCall has given a sequence number.
Registered == {c \in Calls : call[c].Seq # NoSeq}

\* C1: on one Client, the N registrations that succeed get N pairwise
\* distinct sequence numbers; the first number given is 1 and every later
\* registration gets a number strictly larger than every earlier one.
C1_SeqDistinctIncreasing ==
    /\ Len(regLog) = Cardinality(Registered)
    /\ regLog # << >> => regLog[1] = 1
    /\ \A i, j \in DOMAIN regLog : i < j => regLog[i] < regLog[j]
    /\ \A c, d \in Registered : c # d => call[c].Seq # call[d].Seq

\* All the Calls are registered, and the Call that started last was
\* registered first.
C1_Witness ==
    /\ Len(regLog) = MaxCalls
    /\ call[MaxCalls].Seq = 1

\* terminateCall has run after ReadHeader failed in receive.
SeveredAndTerminated == recv.pc = "exit" /\ recv.err = "readErr"

C5_ReplyMatchesSeq ==
    /\ \A s \in DOMAIN pending : call[pending[s]].Seq = s
    /\ \A c \in Calls :
          call[c].Reply # NoSeq =>
              /\ call[c].Reply = call[c].Seq
              /\ nDone[c] = 1 \/ (recv.pc = "done" /\ recv.call = c)

\* Two Calls with sequence numbers 1 < 2 were pending; the response to 2 came
\* first and completed its Call, and the response to 1 has now been decoded.
C5_Witness ==
    \E c, d \in Calls :
        /\ call[c].Seq = 1 /\ call[d].Seq = 2
        /\ call[d].Reply = 2 /\ nDone[d] = 1 /\ call[d].Error = "nil"
        /\ call[c].Reply = 1 /\ recv.pc = "done" /\ recv.call = c

\* C6: a Close on a client on which Close was already called returns
\* ErrShutDown, and over any number of Close calls Client.Close invokes the
\* codec's Close at most once.
C6_CloseOnce ==
    /\ nClose <= 1
    /\ \A k \in Closers : closer[k] = "ccClose" => k = 1
    /\ \A k \in Closers : k > 1 /\ closer[k] # "idle" => closer[k] = "ErrShutDown"

\* Close was called twice: the second got ErrShutDown and the codec was
\* closed once.
C6_Witness ==
    /\ closer[1] = "ccClose"
    /\ closer[2] = "ErrShutDown"
    /\ nClose = 1

\* What C7 promises of the registerCall step of the invocations that
\* started at one of `starts`, and of every invocation that got ErrShutDown.
FailsFast(starts) ==
    /\ \A c \in Calls :
          (call[c].pc = "register" /\ call[c].start \in starts
              /\ call'[c].pc # "register") =>
              /\ call'[c].pc = "done"
              /\ call'[c].Error = "ErrShutDown"
              /\ call'[c].Seq = NoSeq
              /\ pending' = pending
              /\ seq' = seq
    /\ \A c \in Calls :
          (call'[c].Error = "ErrShutDown" /\ call'[c].pc \in {"done", "returned"}) =>
              /\ call'[c].Seq = NoSeq
              /\ call'[c].wrote = "no"
              /\ \A s \in DOMAIN pending' : pending'[s] # c

\* C7, as claimed: a Go/Call invocation that starts after a Close has
\* returned, or after the receive loop has hit a terminal read error, fails
\* with ErrShutDown: no sequence number, no entry in the pending table,
\* nothing written.
C7_Original == [][FailsFast({"shut", "readErr"})]_vars

\* C7, amended: a Go/Call invocation that starts after a Close has returned,
\* or after terminateCall has set c.shutdown, fails with ErrShutDown: it is
\* given no sequence number, is not inserted in the pending table, and
\* nothing is written to the wire for it.
C7_FailsFastAfterShutdown == [][FailsFast({"shut"})]_vars

\* A Go that started after terminateCall had set c.shutdown, with no Close
\* at all, has failed in registerCall and is about to signal completion.
C7_Witness ==
    \E c \in Calls :
        /\ call[c].start = "shut" /\ ~closing
        /\ call[c].pc = "done"
        /\ call[c].Error = "ErrShutDown"
        /\ call[c].Seq = NoSeq /\ call[c].wrote = "no"

\* A goroutine is inside Call.done, waiting for room in the channel.
DoneBlocked ==
    \/ \E c \in Calls : call[c].pc = "done" /\ ~HasRoom(call[call[c].sig].Done)
    \/ recv.pc = "done" /\ ~HasRoom(call[recv.call].Done)
    \/ recv.pc = "termDone" /\ ~HasRoom(call[pending[recv.cur]].Done)

\* C10: Go rejects a caller-supplied channel of capacity 0 before any Call is
\* registered or written, and for every channel Go accepts the completion
\* write of Call.done in send, receive and terminateCall never blocks.
C10_DoneNeverBlocks ==
    /\ \A c \in Calls :
          (userCap = 0 /\ call[c].Done = UserChan) =>
              /\ call[c].pc \in {"idle", "panic"}
              /\ call[c].Seq = NoSeq /\ call[c].wrote = "no"
    /\ ~DoneBlocked


\* ----------------------------------------------------------------- registry

\* The type name of the receiver caller i registered.
NameOf(i) == reg[i].rcvr.typeName

\* "<service>.<method>"
Dotted(name, m) == name \o <<".">> \o m

\* C8: when Register is called several times with receivers of the same
\* exported type name, the first LoadOrStore succeeds and every later one
\* returns an error, and the service map holds the first-stored service with
\* its methods, each of which findService finds.
C8_DuplicateRejected ==
    \A n \in DOMAIN storeLog :
        LET i == storeLog[n]
            first == \A m \in 1 .. (n - 1) : NameOf(storeLog[m]) # NameOf(i)
        IN  IF first
            THEN /\ reg[i].res = "nil"
                 /\ NameOf(i) \in DOMAIN serviceMap
                 /\ serviceMap[NameOf(i)].method = registerMethods(reg[i].rcvr)
                 /\ \A m \in registerMethods(reg[i].rcvr) :
                       findService(serviceMap, Dotted(NameOf(i), m)).err = "nil"
            ELSE reg[i].res = "error"

\* K{} was registered, then &K{} (the same type name, more methods): the
\* second call got an error and the map still holds the methods of K{}.
C8_Witness ==
    /\ Len(storeLog) >= 2
    /\ NameOf(storeLog[1]) = <<"K">> /\ NameOf(storeLog[2]) = <<"K">>
    /\ registerMethods(reg[storeLog[1]].rcvr) = {<<"M">>}
    /\ registerMethods(reg[storeLog[2]].rcvr) = {<<"M">>, <<"S">>}
    /\ reg[storeLog[2]].res = "error"
    /\ serviceMap[<<"K">>].method = {<<"M">>}

\* C9: every registration failure (a duplicate name, a type name that is not
\* exported, a receiver with no qualifying method) comes back as an error
\* value from Register, and leaves the service map as it was.
C9_FailuresReturned ==
    /\ ~exited
    /\ \A i \in Registrants :
          (reg[i].pc \in {"done", "fatal"}
              /\ (~IsExported(NameOf(i)) \/ registerMethods(reg[i].rcvr) = {})) =>
              reg[i].res = "error"
    /\ \A name \in DOMAIN serviceMap :
          IsExported(name) /\ serviceMap[name].method # {}

\* ------------------------------------------------------------------- server

\* The connection is in the state Dispatching.
Dispatching == task[Main].pc \in {"read", "lock", "header", "body"}

\* The places in `out` of the response Headers written for request r.
ResponseHeaders(r) == {i \in DOMAIN out : out[i].k = "H" /\ out[i].r = r}

\* The server is through with request r: its handleRequest has returned, or
\* no handleRequest was started for it and serverCodec is past it.
Finished(r) ==
    IF task[r].pc = "none" THEN task[Main].r # r ELSE task[r].pc = "done"

\* The response written for r is one Header with Error set followed by the
\* invalidRequest body.
OneErrorResponse(r) ==
    /\ Cardinality(ResponseHeaders(r)) = 1
    /\ \A i \in ResponseHeaders(r) :
          /\ out[i].err
          /\ i + 1 \in DOMAIN out
          /\ out[i + 1] = [k |-> "B", r |-> r, err |-> TRUE,
                           body |-> "invalidRequest"]

\* The lookup of request r fails for its service or for its method.
LookupFails(r) ==
    findService(serviceMap, req[r].sm).err \in
        {"can't find service", "can't find method"}

\* C3: when the server reads a request that names an unregistered service
\* or an unknown method of a registered service, it writes a response with
\* the Header Error set and the invalidRequest body, the connection stays in
\* Dispatching (findService returns), and the next Header read starts at a
\* Header, so that a later well-formed request is read and answered.
C3_LookupFailureAnswered ==
    /\ task[Main].pc # "panicked"
    /\ \A r \in DOMAIN req :
          (LookupFails(r) /\ Finished(r) /\ sCloses = 0) => OneErrorResponse(r)
    /\ \A r \in DOMAIN req : ~req[r].misread
    /\ task[Main].pc = "read" => align = "header"

\* C4: for every request whose Header the server reads and handles, it
\* writes exactly one response (one Header and its body) for that request,
\* and when the handler returned an error or the lookup or the argument
\* decoding failed, that response has Error set and the invalidRequest body.
C4_OneResponsePerRequest ==
    \A r \in DOMAIN req :
        (Finished(r) /\ ~Dead /\ sCloses = 0) =>
            /\ Cardinality(ResponseHeaders(r)) = 1
            /\ req[r].hErr => OneErrorResponse(r)


\* The handshake of the connection fails: the Option cannot be decoded, its
\* magic number is not MagicNumber, or its codec tag has no constructor.
HandshakeFails ==
    \/ ~opt.decodes
    \/ opt.MagicNumber # MagicNumber
    \/ opt.CodecType \notin NewCodecFuncMap

\* C11: on a connection whose handshake fails, ServerConn goes from the
\* handshake straight to Closed (its deferred conn.Close(), once): no request
\* is read or dispatched and no response is written.
C11_FailedHandshakeCloses ==
    HandshakeFails =>
        /\ task[Main].pc \in {"handshake", "closed"}
        /\ \A t \in Handlers : task[t].pc = "none"
        /\ req = << >> /\ out = << >> /\ sSending = SFree
        /\ sCloses = IF task[Main].pc = "closed" THEN 1 ELSE 0

\* A decodable Option with the right magic number and the codec tag
\* "application/json", which has no constructor: the connection is closed.
C11_Witness ==
    /\ opt.decodes /\ opt.MagicNumber = MagicNumber /\ opt.CodecType = JsonType
    /\ task[Main].pc = "closed"
    /\ sCloses = 1


\* -------------------------------------------------- client: Call, the locks

WaitsForSending ==
    {Sender(c) : c \in {x \in Calls : call[x].pc = "lock"}}
        \cup (IF recv.pc = "termLockSending" THEN {Receiver} ELSE {})

\* The goroutines that hold c.sending and wait for c.mu: a send inside
\* registerCall or removeCall, terminateCall at its second Lock.
WaitsForMu ==
    {Sender(c) : c \in {x \in Calls : call[x].pc \in {"register", "writeFailed"}}}
        \cup (IF recv.pc = "termLockMu" THEN {Receiver} ELSE {})

\* C18: whoever holds both locks took c.sending before c.mu, and nobody
\* waits for c.sending while holding c.mu; so the goroutines never wait for
\* one another's locks in a circle: the holder of c.mu waits for no lock, and
\* the holder of c.sending waits at most for c.mu.  (Close, IsAvailable,
\* registerCall and removeCall hold c.mu alone and wait for nothing under
\* it.)
C18_LockOrder ==
    /\ mu # Free =>
          /\ mu = Receiver /\ sending = Receiver
          /\ recv.pc \in {"termLoop", "termDone"}
    /\ mu \notin WaitsForSending
    /\ mu \notin WaitsForMu
    /\ sending \notin WaitsForSending
    /\ \A c \in Calls :
          sending = Sender(c) <=> call[c].pc \in {"register", "write", "writeFailed", "done"}
    /\ sending = Receiver <=> recv.pc \in {"termLockMu", "termLoop", "termDone"}

\* terminateCall holds both locks and is inside its range, while a send
\* waits for c.sending and IsAvailable and a Close wait for c.mu.
C18_Witness ==
    /\ recv.pc = "termDone"
    /\ sending = Receiver /\ mu = Receiver
    /\ \E c \in Calls : call[c].pc = "lock"
    /\ avail = "none"
    /\ \E k \in Closers : closer[k] = "idle"

\* ------------------------------------------------ client: the pending table

\* Call c has been taken out of the pending table by the path that is about
\* to signal it: receive, or the write-failure path of send.
InHand(c) ==
    \/ recv.pc = "done" /\ recv.call = c
    \/ \E x \in Calls : call[x].pc = "done" /\ call[x].sig = c

\* C13, as claimed: in every reachable state a sequence number is a key of
\* the pending table if and only if the Call registered under it has not
\* been signalled complete (a Call that removeCall has just handed to the
\* path that signals it counts as completed).
C13_Original ==
    \A c \in Registered :
        call[c].Seq \in DOMAIN pending <=> (nDone[c] = 0 /\ ~InHand(c))

\* C13, amended: a registered Call that has not been signalled complete is a
\* key of the pending table, unless receive or the write-failure path of
\* send has just taken it out and is about to signal it; and a Call that has
\* been signalled complete is a key only when terminateCall signalled it
\* (terminateCall deletes nothing), never before c.shutdown is set.
C13_PendingIffNotCompleted ==
    \A c \in Registered :
        /\ (nDone[c] = 0 /\ ~InHand(c)) => call[c].Seq \in DOMAIN pending
        /\ (nDone[c] >= 1 /\ call[c].Seq \in DOMAIN pending) =>
              /\ shutdown
              /\ call[c].Error = recv.err
              /\ recv.pc \in {"termLoop", "termDone", "exit"}

\* One Call was completed by receive and is no key any more; the other was
\* completed by terminateCall and is still a key.
C13_Witness ==
    \E c, d \in Registered :
        /\ nDone[c] = 1 /\ call[c].Reply = call[c].Seq
        /\ call[c].Seq \notin DOMAIN pending
        /\ nDone[d] = 1 /\ call[d].Error = "readErr"
        /\ call[d].Seq \in DOMAIN pending
        /\ recv.pc = "exit"

\* C14: a Call put in the pending table is completed by one path only
\* (receive, the write-failure path of send, or terminateCall): no Call is
\* signalled complete more than once, and a Call one path has in hand is no
\* longer in the table for another path to find.
C14_SignalledOnce ==
    /\ \A c \in Calls : nDone[c] <= 1
    /\ \A c \in Calls : InHand(c) => nDone[c] = 0 /\ call[c].Seq \notin DOMAIN pending
    /\ \A c \in Calls :
          ~(recv.pc = "done" /\ recv.call = c
              /\ \E x \in Calls : call[x].pc = "done" /\ call[x].sig = c)

\* Two Calls were pending; a response completed one, its Header came a
\* second time, and then the stream was severed and terminateCall completed
\* the other: each was signalled once.
C14_Witness ==
    \E c, d \in Registered :
        /\ c # d /\ nRead = 2
        /\ nDone[c] = 1 /\ call[c].Reply = call[c].Seq
        /\ nDone[d] = 1 /\ call[d].Error = "readErr"
        /\ recv.pc = "exit"

\* send has returned from a Write that failed for Call c.
WriteFailedReturned(c) == call[c].wrote = "failed" /\ call[c].pc = "returned"

\* C15, as claimed: when the Write in send fails for a registered Call, the
\* Call is removed from the pending table and completed with the write
\* error.
C15_Original ==
    \A c \in Calls :
        WriteFailedReturned(c) =>
            /\ call[c].Seq \notin DOMAIN pending
            /\ nDone[c] = 1
            /\ call[c].Error = "writeErr"

\* C15, amended: when the Write in send fails for a registered Call, send
\* removes the Call from the pending table and completes it with the write
\* error, unless receive has already taken it out (a response Header with
\* its sequence number was read first), in which case receive completes it;
\* either way, after send returns the Call is no key of the pending table.
C15_WriteFailureNotOrphaned ==
    \A c \in Calls :
        WriteFailedReturned(c) =>
            /\ call[c].Seq \notin DOMAIN pending
            /\ \/ nDone[c] = 1 /\ call[c].Error = "writeErr"
               \/ /\ call[c].Error \in {"headerErr", "bodyErr"} \/ call[c].Reply = call[c].Seq
                  /\ nDone[c] = 1 \/ (recv.pc = "done" /\ recv.call = c)

\* The Write of a registered Call failed, and send removed the Call and
\* completed it with the write error.
C15_Witness ==
    \E c \in Registered :
        /\ WriteFailedReturned(c)
        /\ call[c].Error = "writeErr" /\ nDone[c] = 1
        /\ call[c].Seq \notin DOMAIN pending


\* ----------------------------------------------- server: the response stream

\* The tasks inside the critical section of sendResponse.
InSendResponse == {t \in Tasks : task[t].pc \in {"header", "body"}}

\* C16: on one connection every response is written as an uninterrupted
\* Header and body pair, whichever task finishes first: at most one task is
\* inside the critical section of sendResponse, what follows a Header on the
\* stream is the body of the same response, and every body follows its
\* Header.
C16_PairsNotInterleaved ==
    /\ \A i \in DOMAIN out :
          /\ (out[i].k = "H" /\ i < Len(out)) =>
                out[i + 1].k = "B" /\ out[i + 1].r = out[i].r
          /\ out[i].k = "B" =>
                i > 1 /\ out[i - 1].k = "H" /\ out[i - 1].r = out[i].r
          /\ (out[i].k = "H" /\ i = Len(out)) =>
                \/ \E t \in Tasks : task[t].pc = "body" /\ task[t].r = out[i].r
                \/ sCloses > 0
    /\ Cardinality(InSendResponse) <= 1

\* C17: after the fatal header-read failure the connection drains: the
\* stream is not closed while a handleRequest is in flight, and over the
\* life of a connection that reached Dispatching Close is invoked on the
\* stream exactly once.
C17_DrainThenCloseOnce ==
    ~HandshakeFails =>
        /\ sCloses <= 1
        /\ sCloses >= 1 => \A t \in Handlers : task[t].pc \in {"none", "done"}
        /\ task[Main].pc \in {"unlock", "closed", "fatal", "crashed"} => sCloses = 1

\* C19: in the dispatch loop exactly one body is consumed after each request
\* Header, on every path of readRequest, so every ReadHeader starts at a
\* Header of the request stream.
C19_HeaderBoundary ==
    /\ task[Main].pc = "read" => align = "header"
    /\ \A r \in DOMAIN req : ~req[r].misread

\* C20: the mutex `sending` of serverCodec is unlocked only by the task that
\* holds it, on every path through serverCodec and sendResponse, the return
\* of serverCodec included.
C20_UnlockOnlyByHolder ==
    /\ task[Main].pc \in {"unlock", "panicked"} => sSending = Holder(Main)
    /\ \A t \in InSendResponse : sSending = Holder(t)
    /\ task[Main].pc # "fatal"

=============================================================================
